---- MODULE Spec2Model ----
(***************************************************************************)
(* State machine of the Socket.IO relay of src/api/index.ts: the presence  *)
(* list (onlineUsers), the host index (roomHost), the transport's rooms    *)
(* (io.sockets.adapter.rooms) and the events each handler sends.           *)
(*                                                                         *)
(* One action per handler; a handler runs to completion (Node's single     *)
(* threaded event loop), so an action is the whole handler.                *)
(***************************************************************************)
EXTENDS Integers, Sequences, FiniteSets, TLC

\* ---------------------------------------------------------------- bounds
MaxConns == 2
MaxRooms == 1
MaxMsgLen == 2

\* ------------------------------------------------------------ value sets
\* socket.id values the transport hands out, one per connection.
SocketIds == <<"s1", "s2", "s3", "s4">>
\* room names other than socket ids that clients use.
RoomIds == <<"r1", "r2", "r3">>

Conns == {SocketIds[i] : i \in 1..MaxConns}
RoomNames == {RoomIds[i] : i \in 1..MaxRooms}
\* Every string a client can put in a `room` or `to` field: a room of the
\* transport is named by any string, a socket id included.
Names == Conns \cup RoomNames

\* The empty string: falsy in `!userId`, `!room`, `!to`, `a || b`.
Empty == ""
\* null / undefined payloads of rtc:offer, rtc:answer, rtc:ice.
Null == "null"

UserIds == {"alice", "bob"}
Payloads == {"sdp"}
Chars == {" ", "h"}
Timestamps == {"t1"}
\* new Date().toISOString(): whatever the clock reads when the relay runs.
Clock == {"now"}

RECURSIVE SeqsUpTo(_)
SeqsUpTo(n) ==
    IF n = 0 THEN {<< >>}
    ELSE LET shorter == SeqsUpTo(n - 1)
         IN  shorter \cup {Append(s, ch) : s \in shorter, ch \in Chars}

\* message texts, as character sequences
Messages == SeqsUpTo(MaxMsgLen)

\* An optional field (x?: T) is a sequence of length at most one.
None == << >>
Some(x) == <<x>>

\* ChatMessagePayload, each field possibly missing or empty.
ChatPayloads ==
    [userId : {Empty} \cup {"bob"},
     message : {None} \cup {Some(m) : m \in Messages},
     timestamp : {None} \cup {Some(t) : t \in Timestamps}]

\* ----------------------------------------------------------------- state
VARIABLES
    sockets,      \* io.sockets.sockets: ids of the connected sockets
    closed,       \* ids whose socket has disconnected (an id is never reused)
    onlineUsers,  \* the presence list, a sequence of OnlineUser
    roomHost,     \* Map room -> host socket id (a function on its keys)
    rooms,        \* io.sockets.adapter.rooms: room name -> set of member ids
    last,         \* the event the last handler run received
    out,          \* what that handler run sent, in order
    priorUsers    \* the presence list as it was before the latest connection,
                  \* while only that connection has changed the list since

vars == <<sockets, closed, onlineUsers, roomHost, rooms, last, out, priorUsers>>

\* ------------------------------------------------------- pure operators
OnlineUser(id, userId) == [socketId |-> id, userId |-> userId]

\* String.prototype.trim on a character sequence.
RECURSIVE TrimStart(_)
TrimStart(s) ==
    IF s # << >> /\ Head(s) = " " THEN TrimStart(Tail(s)) ELSE s

RECURSIVE TrimEnd(_)
TrimEnd(s) ==
    IF s # << >> /\ s[Len(s)] = " " THEN TrimEnd(SubSeq(s, 1, Len(s) - 1)) ELSE s

\* A relay that tests the message as sent, without trimming it.
NoTrim(s) == s

Trim(s) == TrimEnd(TrimStart(s))

\* payload?.message?.trim(): None when the payload or the message is missing.
TrimmedMessage(p) ==
    IF p = None \/ p[1].message = None THEN None ELSE Some(Trim(p[1].message[1]))

\* !trimmedMessage: undefined or the empty string.
IsFalsyMessage(t) == t = None \/ t[1] = << >>

\* Array.prototype.findIndex by socketId; 0 stands for JavaScript's -1
\* (sequences are 1-based).
FindIndex(users, id) ==
    LET hits == {i \in 1..Len(users) : users[i].socketId = id}
    IN  IF hits = {} THEN 0 ELSE CHOOSE i \in hits : \A j \in hits : i <= j

\* onlineUsers.some(user => user.userId === userId)
SomeUserId(users, userId) == \E i \in 1..Len(users) : users[i].userId = userId

\* A merge policy that pushes an entry for every announcement.
AnnounceAppend(users, id, userId) == Append(users, OnlineUser(id, userId))

\* A merge policy that looks for the userId before it looks for the socket.
AnnounceSteal(users, id, userId) ==
    IF SomeUserId(users, userId)
    THEN [i \in 1..Len(users) |->
             IF users[i].userId = userId THEN OnlineUser(id, userId)
             ELSE users[i]]
    ELSE IF FindIndex(users, id) # 0
    THEN [users EXCEPT ![FindIndex(users, id)] = OnlineUser(id, userId)]
    ELSE Append(users, OnlineUser(id, userId))

\* The merge policy of the newUser handler (lines 75-87).
Announce(users, id, userId) ==
    LET existingUserIndex == FindIndex(users, id)
    IN  IF existingUserIndex # 0
        THEN [users EXCEPT ![existingUserIndex] = OnlineUser(id, userId)]
        ELSE IF ~SomeUserId(users, userId)
        THEN Append(users, OnlineUser(id, userId))
        ELSE [i \in 1..Len(users) |->
                 IF users[i].userId = userId THEN OnlineUser(id, userId)
                 ELSE users[i]]

\* A removal keyed on the userId of the connection's entry.
WithoutSameUser(users, id) ==
    LET mine == {users[i].userId : i \in {j \in 1..Len(users) : users[j].socketId = id}}
    IN  SelectSeq(users, LAMBDA u : u.userId \notin mine)

\* onlineUsers.filter(user => user.socketId !== id)
RECURSIVE Without(_, _)
Without(users, id) ==
    IF users = << >> THEN << >>
    ELSE IF Head(users).socketId = id THEN Without(Tail(users), id)
    ELSE <<Head(users)>> \o Without(Tail(users), id)

\* A resolution that skips the presence lookup.
ResolveNoLookup(users, id, payloadUserId) ==
    IF payloadUserId # Empty THEN payloadUserId ELSE id

\* payload.userId || sender?.userId || socket.id
ResolveUserId(users, id, payloadUserId) ==
    LET i == FindIndex(users, id)
    IN  IF payloadUserId # Empty THEN payloadUserId
        ELSE IF i # 0 /\ users[i].userId # Empty THEN users[i].userId
        ELSE id

\* payload.timestamp ?? new Date().toISOString()
ResolveTimestamp(ts, now) == IF ts = None THEN now ELSE ts[1]

\* --------------------------------------------------- the transport's sends
\* One emit: the event, the sockets it is delivered to, and its payload. Every
\* record has all fields; an event leaves those it does not carry at their
\* defaults. hostsAtEmit is the host index as it stands when the emit runs.
Emission(ev, rcpts, hosts) ==
    [ev |-> ev, rcpts |-> rcpts, from |-> Empty, users |-> << >>,
     userId |-> Empty, message |-> << >>, timestamp |-> Empty,
     payload |-> Null, hostsAtEmit |-> hosts]

\* io.emit: every connected socket.
IoEmit(conn) == conn

\* io.to(room): every connected socket that is in the room.
IoTo(conn, rms, room) == rms[room] \cap conn

\* socket.to(room): the sockets of the room, except those in the room named
\* by the sender's id (BroadcastOperator with exceptRooms = {socket.id}).
SocketTo(conn, rms, id, room) == (rms[room] \ rms[id]) \cap conn

\* The Map of roomHost, as a function on its keys.
NoHosts == [r \in {} |-> Empty]

\* roomHost.set(room, id)
MapSet(m, room, id) ==
    [r \in DOMAIN m \cup {room} |-> IF r = room THEN id ELSE m[r]]

\* roomHost.delete(room)
MapDelete(m, room) == [r \in DOMAIN m \ {room} |-> m[r]]

\* A join that records the joiner as host whether or not one is recorded.
ClaimHostAlways(m, room, id) == MapSet(m, room, id)

\* if (!roomHost.has(room)) roomHost.set(room, socket.id)
ClaimHost(m, room, id) == IF room \in DOMAIN m THEN m ELSE MapSet(m, room, id)

\* roomHost.get(room); Empty stands for undefined.
HostOf(m, room) == IF room \in DOMAIN m THEN m[room] ELSE Empty

\* A host test that only asks whether the room has a host.
IsHostAny(m, room, id) == room \in DOMAIN m

\* hostId && hostId === socket.id
IsHost(m, room, id) == HostOf(m, room) # Empty /\ HostOf(m, room) = id

\* A release that stops at the first room the socket hosts.
ReleaseFirstHost(m, id) ==
    LET mine == {x \in DOMAIN m : m[x] = id}
    IN  IF mine = {} THEN m
        ELSE MapDelete(m, CHOOSE x \in mine : TRUE)

\* A disconnect that leaves the host index as it is.
ReleaseNoHost(m, id) == m

\* for (const [room, hostId] of roomHost.entries())
\*   if (hostId === socket.id) roomHost.delete(room)
ReleaseHost(m, id) == [r \in {x \in DOMAIN m : m[x] # id} |-> m[r]]

\* socket.join(room)
SocketJoin(rms, id, room) == [rms EXCEPT ![room] = @ \cup {id}]

\* socket.leave(room)
SocketLeave(rms, id, room) == [rms EXCEPT ![room] = @ \ {id}]

\* An end of meeting that leaves the members in the room.
LeaveNoneOf(conn, rms, room) == rms

\* for (const clientId of clients) io.sockets.sockets.get(clientId)?.leave(room)
\* a member with no socket object is skipped by `s?.`
LeaveAllOf(conn, rms, room) == [rms EXCEPT ![room] = @ \ conn]

\* The transport's cleanup before "disconnect" is emitted: the socket leaves
\* every room.
LeaveEvery(rms, id) == [r \in DOMAIN rms |-> rms[r] \ {id}]

\* The event record kept in `last`.
Event(op, id) ==
    [op |-> op, id |-> id, room |-> Empty, to |-> Empty, userId |-> Empty,
     chat |-> None, payload |-> Null]

\* ------------------------------------------------------------------ Init
Init ==
    /\ sockets = {}
    /\ closed = {}
    /\ onlineUsers = << >>
    /\ roomHost = NoHosts
    /\ rooms = [r \in Names |-> {}]
    /\ last = Event("init", Empty)
    /\ out = << >>
    /\ priorUsers = None

\* --------------------------------------------------------------- actions
\* io.on("connection"): the transport has made the socket, with a fresh id,
\* and put it in the room named by its id.
Connection(id) ==
    /\ id \notin sockets \cup closed
    /\ sockets' = sockets \cup {id}
    /\ rooms' = [rooms EXCEPT ![id] = @ \cup {id}]
    /\ onlineUsers' = Append(onlineUsers, OnlineUser(id, Empty))
    /\ out' = << [Emission("usersOnline", IoEmit(sockets'), roomHost)
                    EXCEPT !.users = onlineUsers'] >>
    /\ last' = Event("connection", id)
    /\ UNCHANGED <<closed, roomHost>>

\* socket.on("newUser")
NewUser(id, userId) ==
    /\ id \in sockets
    /\ last' = [Event("newUser", id) EXCEPT !.userId = userId]
    /\ IF userId = Empty
       THEN /\ out' = << >>
            /\ UNCHANGED onlineUsers
       ELSE /\ onlineUsers' = Announce(onlineUsers, id, userId)
            /\ out' = << [Emission("usersOnline", IoEmit(sockets), roomHost)
                            EXCEPT !.users = onlineUsers'] >>
    /\ UNCHANGED <<sockets, closed, roomHost, rooms>>

\* socket.on("chat:message")
ChatMessage(id, p, now) ==
    /\ id \in sockets
    /\ last' = [Event("chat:message", id) EXCEPT !.chat = p]
    /\ LET trimmedMessage == TrimmedMessage(p)
       IN  IF IsFalsyMessage(trimmedMessage)
           THEN out' = << >>
           ELSE out' = << [Emission("chat:message", IoEmit(sockets), roomHost)
                             EXCEPT !.userId = ResolveUserId(onlineUsers, id, p[1].userId),
                                    !.message = trimmedMessage[1],
                                    !.timestamp = ResolveTimestamp(p[1].timestamp, now)] >>
    /\ UNCHANGED <<sockets, closed, onlineUsers, roomHost, rooms>>

\* socket.on('rtc:join')
RtcJoin(id, room) ==
    /\ id \in sockets
    /\ last' = [Event("rtc:join", id) EXCEPT !.room = room]
    /\ IF room = Empty
       THEN /\ out' = << >>
            /\ UNCHANGED <<rooms, roomHost>>
       ELSE /\ rooms' = SocketJoin(rooms, id, room)
            /\ roomHost' = ClaimHost(roomHost, room, id)
            /\ out' = << [Emission("rtc:joined", SocketTo(sockets, rooms', id, room), roomHost')
                            EXCEPT !.from = id] >>
    /\ UNCHANGED <<sockets, closed, onlineUsers>>

\* The rtc:join handler run for a socket whose disconnect handler has already
\* run: the closure still holds the socket, socket.join still adds the id to
\* the adapter's room, and the host index is written as for a live socket.
StaleRtcJoin(id, room) ==
    /\ id \in closed
    /\ last' = [Event("rtc:join", id) EXCEPT !.room = room]
    /\ IF room = Empty
       THEN /\ out' = << >>
            /\ UNCHANGED <<rooms, roomHost>>
       ELSE /\ rooms' = SocketJoin(rooms, id, room)
            /\ roomHost' = ClaimHost(roomHost, room, id)
            /\ out' = << [Emission("rtc:joined", SocketTo(sockets, rooms', id, room), roomHost')
                            EXCEPT !.from = id] >>
    /\ UNCHANGED <<sockets, closed, onlineUsers>>

\* The body of rtc:leave:
\* if (!room) return; socket.leave(room);
\* socket.to(room).emit('rtc:left', { from: socket.id })
LeaveAndTell(id, room) ==
    IF room = Empty
    THEN /\ out' = << >>
         /\ UNCHANGED rooms
    ELSE /\ rooms' = SocketLeave(rooms, id, room)
         /\ out' = << [Emission("rtc:left", SocketTo(sockets, rooms', id, room), roomHost)
                         EXCEPT !.from = id] >>

\* An rtc:leave that gives up the room when the host leaves.
RtcLeaveReleasing(id, room) ==
    /\ id \in sockets
    /\ last' = [Event("rtc:leave", id) EXCEPT !.room = room]
    /\ LeaveAndTell(id, room)
    /\ roomHost' = IF IsHost(roomHost, room, id) THEN MapDelete(roomHost, room) ELSE roomHost
    /\ UNCHANGED <<sockets, closed, onlineUsers>>

\* socket.on('rtc:leave')
RtcLeave(id, room) ==
    /\ id \in sockets
    /\ last' = [Event("rtc:leave", id) EXCEPT !.room = room]
    /\ LeaveAndTell(id, room)
    /\ UNCHANGED <<sockets, closed, onlineUsers, roomHost>>

\* A meeting:leave that leaves the room and tells no one.
MeetingLeaveSilently(id, room) ==
    /\ out' = << >>
    /\ rooms' = IF room = Empty THEN rooms ELSE SocketLeave(rooms, id, room)

\* The body of meeting:leave:
\* if (!room) return; socket.leave(room);
\* socket.to(room).emit('rtc:left', { from: socket.id })
MeetingLeaveAndTell(id, room) ==
    IF ~(room # Empty)
    THEN /\ UNCHANGED rooms
         /\ out' = << >>
    ELSE LET left == SocketLeave(rooms, id, room)
         IN  /\ rooms' = left
             /\ out' = << [Emission("rtc:left", SocketTo(sockets, left, id, room), roomHost)
                             EXCEPT !.from = id] >>

\* socket.on('meeting:leave')
MeetingLeave(id, room) ==
    /\ id \in sockets
    /\ last' = [Event("meeting:leave", id) EXCEPT !.room = room]
    /\ MeetingLeaveAndTell(id, room)
    /\ UNCHANGED <<sockets, closed, onlineUsers, roomHost>>

\* A relay that looks at the room and the target only.
ForwardAnyPayload(ev, id, room, to, payload) ==
    IF room = Empty \/ to = Empty
    THEN << >>
    ELSE << [Emission(ev, SocketTo(sockets, rooms, id, to), roomHost)
               EXCEPT !.from = id, !.payload = payload] >>

\* The body shared by rtc:offer, rtc:answer and rtc:ice:
\* if (!room || !to || !payload) return;
\* socket.to(to).emit(ev, { from: socket.id, payload })
Forward(ev, id, room, to, payload) ==
    IF room = Empty \/ to = Empty \/ payload = Null
    THEN << >>
    ELSE << [Emission(ev, SocketTo(sockets, rooms, id, to), roomHost)
               EXCEPT !.from = id, !.payload = payload] >>

\* socket.on('rtc:offer'), socket.on('rtc:answer'), socket.on('rtc:ice')
RtcSignal(ev, id, room, to, payload) ==
    /\ id \in sockets
    /\ last' = [Event(ev, id) EXCEPT !.room = room, !.to = to, !.payload = payload]
    /\ out' = Forward(ev, id, room, to, payload)
    /\ UNCHANGED <<sockets, closed, onlineUsers, roomHost, rooms>>

RtcOffer(id, room, to, offer) == RtcSignal("rtc:offer", id, room, to, offer)

RtcAnswer(id, room, to, answer) == RtcSignal("rtc:answer", id, room, to, answer)

RtcIce(id, room, to, candidate) == RtcSignal("rtc:ice", id, room, to, candidate)

\* socket.on('meeting:end')
MeetingEnd(id, room) ==
    /\ id \in sockets
    /\ last' = [Event("meeting:end", id) EXCEPT !.room = room]
    /\ IF room = Empty
       THEN /\ out' = << >>
            /\ UNCHANGED <<rooms, roomHost>>
       ELSE IF IsHost(roomHost, room, id)
       THEN /\ out' = << Emission("meeting:ended", IoTo(sockets, rooms, room), roomHost) >>
            /\ roomHost' = MapDelete(roomHost, room)
            /\ rooms' = LeaveAllOf(sockets, rooms, room)
       ELSE /\ out' = << Emission("meeting:end:denied", {id}, roomHost) >>
            /\ UNCHANGED <<rooms, roomHost>>
    /\ UNCHANGED <<sockets, closed, onlineUsers>>

\* A disconnect that tells the others before it removes the entry.
DisconnectEmitFirst(id) ==
    /\ id \in sockets
    /\ sockets' = sockets \ {id}
    /\ closed' = closed \cup {id}
    /\ rooms' = LeaveEvery(rooms, id)
    /\ last' = Event("disconnect", id)
    /\ out' = << [Emission("usersOnline", IoEmit(sockets'), roomHost)
                    EXCEPT !.users = onlineUsers] >>
    /\ onlineUsers' = Without(onlineUsers, id)
    /\ roomHost' = ReleaseHost(roomHost, id)

\* socket.on("disconnect"): the transport has already removed the socket and
\* taken it out of every room.
Disconnect(id) ==
    /\ id \in sockets
    /\ sockets' = sockets \ {id}
    /\ closed' = closed \cup {id}
    /\ rooms' = LeaveEvery(rooms, id)
    /\ last' = Event("disconnect", id)
    /\ onlineUsers' = Without(onlineUsers, id)
    /\ out' = << [Emission("usersOnline", IoEmit(sockets'), roomHost)
                    EXCEPT !.users = onlineUsers'] >>
    /\ roomHost' = ReleaseHost(roomHost, id)

\* ------------------------------------------------------- specifications
\* The handlers fall in three families that share only the connection's
\* life cycle: newUser and chat:message read and write the presence list;
\* rtc:join, rtc:leave, meeting:end and meeting:leave read and write the host
\* index and the rooms; rtc:offer, rtc:answer and rtc:ice read the rooms and
\* write nothing. Each family is explored with connection and disconnect.

\* The record of a connection's visit, kept beside the handlers: a
\* connection starts one with the list it found; its own newUser events are
\* noted; a change of the list by any other connection ends it.
TrackVisit ==
    priorUsers' =
        IF last'.op = "connection"
        THEN Some([id |-> last'.id, users |-> onlineUsers, identified |-> FALSE])
        ELSE IF priorUsers = None THEN None
        ELSE IF last'.id # priorUsers[1].id
        THEN (IF onlineUsers' = onlineUsers THEN priorUsers ELSE None)
        ELSE IF last'.op = "newUser" /\ last'.userId # Empty
        THEN Some([priorUsers[1] EXCEPT !.identified = TRUE])
        ELSE priorUsers

ConnectionStep == \E id \in Conns : Connection(id)

DisconnectStep == \E id \in Conns : Disconnect(id)

NewUserStep == \E id \in Conns, userId \in UserIds \cup {Empty} : NewUser(id, userId)

ChatMessageStep ==
    \E id \in Conns, p \in {None} \cup {Some(x) : x \in ChatPayloads}, now \in Clock :
        ChatMessage(id, p, now)

RtcJoinStep == \E id \in Conns, room \in Names \cup {Empty} : RtcJoin(id, room)

RtcLeaveStep == \E id \in Conns, room \in Names \cup {Empty} : RtcLeave(id, room)

MeetingEndStep == \E id \in Conns, room \in Names \cup {Empty} : MeetingEnd(id, room)

MeetingLeaveStep == \E id \in Conns, room \in Names \cup {Empty} : MeetingLeave(id, room)

RtcOfferStep ==
    \E id \in Conns, room \in RoomNames \cup {Empty}, to \in Names \cup {Empty},
       offer \in Payloads \cup {Null} : RtcOffer(id, room, to, offer)

RtcAnswerStep ==
    \E id \in Conns, room \in RoomNames \cup {Empty}, to \in Names \cup {Empty},
       answer \in Payloads \cup {Null} : RtcAnswer(id, room, to, answer)

RtcIceStep ==
    \E id \in Conns, room \in RoomNames \cup {Empty}, to \in Names \cup {Empty},
       candidate \in Payloads \cup {Null} : RtcIce(id, room, to, candidate)

\* presence and chat
NextPresence ==
    \/ ConnectionStep /\ TrackVisit
    \/ NewUserStep /\ TrackVisit
    \/ ChatMessageStep /\ TrackVisit
    \/ DisconnectStep /\ TrackVisit

SpecPresence == Init /\ [][NextPresence]_vars

\* rooms and host authority
\* visits are followed in the presence family only
NextRooms ==
    \/ ConnectionStep /\ UNCHANGED priorUsers
    \/ RtcJoinStep /\ UNCHANGED priorUsers
    \/ RtcLeaveStep /\ UNCHANGED priorUsers
    \/ MeetingEndStep /\ UNCHANGED priorUsers
    \/ MeetingLeaveStep /\ UNCHANGED priorUsers
    \/ DisconnectStep /\ UNCHANGED priorUsers

SpecRooms == Init /\ [][NextRooms]_vars

\* point-to-point signaling over the rooms
NextSignal ==
    \/ ConnectionStep /\ UNCHANGED priorUsers
    \/ RtcJoinStep /\ UNCHANGED priorUsers
    \/ RtcLeaveStep /\ UNCHANGED priorUsers
    \/ RtcOfferStep /\ UNCHANGED priorUsers
    \/ RtcAnswerStep /\ UNCHANGED priorUsers
    \/ RtcIceStep /\ UNCHANGED priorUsers
    \/ DisconnectStep /\ UNCHANGED priorUsers

SpecSignal == Init /\ [][NextSignal]_vars

\* every handler
\* The events that lack a required field, over states built by connection,
\* newUser, rtc:join and disconnect.
MalformedRoomStep ==
    \E id \in Conns :
        \/ RtcLeave(id, Empty)
        \/ MeetingLeave(id, Empty)
        \/ MeetingEnd(id, Empty)

MalformedSignalStep ==
    \E id \in Conns, room \in RoomNames \cup {Empty}, to \in Names \cup {Empty},
       payload \in Payloads \cup {Null} :
        /\ room = Empty \/ to = Empty \/ payload = Null
        /\ \/ RtcOffer(id, room, to, payload)
           \/ RtcAnswer(id, room, to, payload)
           \/ RtcIce(id, room, to, payload)

NextMalformed ==
    \/ ConnectionStep /\ UNCHANGED priorUsers
    \/ NewUserStep /\ UNCHANGED priorUsers
    \/ RtcJoinStep /\ UNCHANGED priorUsers
    \/ MalformedRoomStep /\ UNCHANGED priorUsers
    \/ MalformedSignalStep /\ UNCHANGED priorUsers
    \/ DisconnectStep /\ UNCHANGED priorUsers

SpecMalformed == Init /\ [][NextMalformed]_vars

\* The rooms family with joins that arrive after their socket's disconnect.
StaleRtcJoinStep == \E id \in Conns, room \in RoomNames \cup {Empty} : StaleRtcJoin(id, room)

NextStale ==
    \/ NextRooms
    \/ StaleRtcJoinStep /\ UNCHANGED priorUsers

SpecStale == Init /\ [][NextStale]_vars

Next ==
    \/ NextPresence
    \/ NextRooms
    \/ NextSignal

Spec == Init /\ [][Next]_vars

\* ---------------------------------------------------------------- claims
\* Indexes of the presence entries of a connection, and of a user id.
EntriesOf(id) == {i \in 1..Len(onlineUsers) : onlineUsers[i].socketId = id}

EntriesBearing(userId) == {i \in 1..Len(onlineUsers) : onlineUsers[i].userId = userId}

\* The handlers of the three point-to-point signaling events.
SignalOps == {"rtc:offer", "rtc:answer", "rtc:ice"}

\* A message text that is empty once trimmed: it holds nothing but spaces.
AllSpaces(m) == \A i \in 1..Len(m) : m[i] = " "

\* C1: the presence list holds exactly one entry for each connected
\* connection and none for any other id, so it has as many entries as there
\* are connected connections (N after N connects and no disconnect).
C1_OneEntryPerConnection ==
    /\ \A id \in sockets : Cardinality(EntriesOf(id)) = 1
    /\ \A i \in 1..Len(onlineUsers) : onlineUsers[i].socketId \in sockets
    /\ Len(onlineUsers) = Cardinality(sockets)
    /\ (closed = {} => Len(onlineUsers) = Cardinality(sockets \cup closed))

\* A connection has connected, identified itself and stayed, another has left.
C1_Witness ==
    /\ closed # {}
    /\ sockets # {}
    /\ last.op = "newUser"
    /\ \E i \in 1..Len(onlineUsers) : onlineUsers[i].userId # Empty

\* C2 as stated: once a connection has announced a non-empty userId, exactly
\* one presence entry bears that userId, and it is the announcer's, also when
\* another connection announced the same userId before.
C2_OneEntryPerUserId ==
    (last.op = "newUser" /\ last.userId # Empty) =>
        /\ Cardinality(EntriesBearing(last.userId)) = 1
        /\ \A i \in EntriesBearing(last.userId) : onlineUsers[i].socketId = last.id

\* C3: a meeting:end for a room whose recorded host is not the requester (or
\* that has no host) sends meeting:end:denied to the requester alone, sends no
\* meeting:ended, and leaves the host index and every room as they were.
C3_NonHostEndDenied ==
    [][(/\ last'.op = "meeting:end"
        /\ last'.room # Empty
        /\ (last'.room \notin DOMAIN roomHost \/ roomHost[last'.room] # last'.id))
       => /\ Len(out') = 1
          /\ out'[1].ev = "meeting:end:denied"
          /\ out'[1].rcpts = {last'.id}
          /\ roomHost' = roomHost
          /\ rooms' = rooms]_vars

\* A member of a room hosted by another connection has asked to end it.
C3_Witness ==
    /\ last.op = "meeting:end"
    /\ last.room \in DOMAIN roomHost
    /\ roomHost[last.room] # last.id
    /\ last.id \in rooms[last.room]
    /\ Len(out) = 1
    /\ out[1].ev = "meeting:end:denied"

\* C4: a meeting:end from the recorded host of the room sends meeting:ended to
\* every member the room has at that moment, while the host is still recorded,
\* then clears the room's host and leaves the room with no member; no
\* meeting:end:denied is sent.
C4_HostEndsRoom ==
    [][(/\ last'.op = "meeting:end"
        /\ last'.room \in DOMAIN roomHost
        /\ roomHost[last'.room] = last'.id)
       => /\ Len(out') = 1
          /\ out'[1].ev = "meeting:ended"
          /\ out'[1].rcpts = rooms[last'.room]
          /\ out'[1].hostsAtEmit = roomHost
          /\ last'.room \notin DOMAIN roomHost'
          /\ rooms'[last'.room] = {}]_vars

\* The host has ended a room that had two members.
C4_Witness ==
    /\ last.op = "meeting:end"
    /\ Len(out) = 1
    /\ out[1].ev = "meeting:ended"
    /\ Cardinality(out[1].rcpts) = 2
    /\ HostOf(out[1].hostsAtEmit, last.room) = last.id
    /\ rooms[last.room] = {}

\* C5: the recorded host of a room changes only from unset to the joiner when
\* a connection joins a room without host, from h to unset when h disconnects,
\* and from h to unset when h ends the room; so never from one connection to
\* another, and never by a join while a host is recorded.
C5_HostChanges ==
    [][\A r \in Names :
          HostOf(roomHost', r) # HostOf(roomHost, r) =>
             \/ /\ HostOf(roomHost, r) = Empty
                /\ last'.op = "rtc:join"
                /\ last'.room = r
                /\ HostOf(roomHost', r) = last'.id
             \/ /\ HostOf(roomHost', r) = Empty
                /\ last'.op = "disconnect"
                /\ HostOf(roomHost, r) = last'.id
             \/ /\ HostOf(roomHost', r) = Empty
                /\ last'.op = "meeting:end"
                /\ last'.room = r
                /\ HostOf(roomHost, r) = last'.id]_vars

\* A connection has joined a room that another connection hosts.
C5_Witness ==
    /\ last.op = "rtc:join"
    /\ last.room # Empty
    /\ last.id \in rooms[last.room]
    /\ HostOf(roomHost, last.room) \in sockets \ {last.id}
    /\ Len(out) = 1
    /\ HostOf(out[1].hostsAtEmit, last.room) = HostOf(roomHost, last.room)

\* C6: a disconnect clears the host of every room the connection hosts; a
\* room without host stays so until a connection joins it, and that joiner
\* becomes its host.
C6_DisconnectReleasesAll ==
    [][/\ last'.op = "disconnect" =>
             \A r \in Names : HostOf(roomHost, r) = last'.id => r \notin DOMAIN roomHost'
       /\ \A r \in Names :
             HostOf(roomHost, r) = Empty =>
                IF last'.op = "rtc:join" /\ last'.room = r
                THEN HostOf(roomHost', r) = last'.id
                ELSE HostOf(roomHost', r) = Empty]_vars

\* The host of two rooms has disconnected.
C6_Witness ==
    /\ last.op = "disconnect"
    /\ Len(out) = 1
    /\ Cardinality({r \in DOMAIN out[1].hostsAtEmit : out[1].hostsAtEmit[r] = last.id}) >= 2
    /\ \A r \in DOMAIN roomHost : roomHost[r] # last.id

\* C7 as stated: when the disconnect handler emits usersOnline, the presence
\* entry of the connection is gone and no room's recorded host is the
\* disconnecting connection.
C7_ReleasedBeforeBroadcast ==
    last.op = "disconnect" =>
        \A k \in 1..Len(out) :
            out[k].ev = "usersOnline" =>
               /\ \A i \in 1..Len(out[k].users) : out[k].users[i].socketId # last.id
               /\ \A r \in DOMAIN out[k].hostsAtEmit : out[k].hostsAtEmit[r] # last.id

\* C8 as stated, in its exclusive half: an rtc:offer, rtc:answer or rtc:ice
\* with non-empty room, to and payload is sent once, with the sender's id, and
\* reaches no connection other than the one whose id is `to`, whatever `to`
\* is.
C8_PointToPoint ==
    (/\ last.op \in SignalOps
     /\ last.room # Empty
     /\ last.to # Empty
     /\ last.payload # Null)
    => /\ Len(out) = 1
       /\ out[1].ev = last.op
       /\ out[1].from = last.id
       /\ out[1].payload = last.payload
       /\ out[1].rcpts \subseteq {last.to}

\* C9: a chat:message whose message holds nothing but spaces sends nothing
\* and changes no state.
C9_BlankChatDropped ==
    [][(/\ last'.op = "chat:message"
        /\ last'.chat # None
        /\ last'.chat[1].message # None
        /\ AllSpaces(last'.chat[1].message[1]))
       => /\ out' = << >>
          /\ UNCHANGED <<sockets, closed, onlineUsers, roomHost, rooms>>]_vars

\* A chat:message of two spaces has been dropped.
C9_Witness ==
    /\ last.op = "chat:message"
    /\ last.chat # None
    /\ last.chat[1].message = Some(<<" ", " ">>)
    /\ out = << >>

\* C10: a chat:message whose message is not empty once trimmed sends exactly
\* one chat:message, to every connected socket, the sender included; its
\* userId is payload.userId if not empty, else the userId the sender has
\* announced if not empty, else the sender's socket id.
C10_ChatBroadcast ==
    (/\ last.op = "chat:message"
     /\ last.chat # None
     /\ last.chat[1].message # None
     /\ ~AllSpaces(last.chat[1].message[1]))
    => /\ Len(out) = 1
       /\ out[1].ev = "chat:message"
       /\ out[1].rcpts = sockets
       /\ last.id \in out[1].rcpts
       /\ IF last.chat[1].userId # Empty
          THEN out[1].userId = last.chat[1].userId
          ELSE IF \E i \in EntriesOf(last.id) : onlineUsers[i].userId # Empty
          THEN \E i \in EntriesOf(last.id) : out[1].userId = onlineUsers[i].userId
          ELSE out[1].userId = last.id

\* A chat:message without userId from a connection that announced one has
\* reached both connected sockets under the announced userId.
C10_Witness ==
    /\ last.op = "chat:message"
    /\ last.chat # None
    /\ last.chat[1].userId = Empty
    /\ Len(out) = 1
    /\ Cardinality(out[1].rcpts) = 2
    /\ out[1].userId \in UserIds

\* C11: a connection that connects and then disconnects, with any newUser
\* events of its own in between and no change of the list by another
\* connection, leaves the presence list exactly as it found it: same
\* entries, same order.
C11_VisitLeavesNoResidue ==
    (/\ last.op = "disconnect"
     /\ priorUsers # None
     /\ priorUsers[1].id = last.id)
    => onlineUsers = priorUsers[1].users

\* A connection has joined a non-empty list, announced a userId and left.
C11_Witness ==
    /\ last.op = "disconnect"
    /\ priorUsers # None
    /\ priorUsers[1].id = last.id
    /\ priorUsers[1].identified
    /\ priorUsers[1].users # << >>
    /\ onlineUsers = priorUsers[1].users

\* C12: every handler run that changes the presence list (connection, newUser
\* with a non-empty userId, disconnect) sends, in the same run and after the
\* change, one usersOnline event to every connected socket, carrying the
\* list as it stands after the change.
C12_ChangeThenBroadcast ==
    [][(\/ onlineUsers' # onlineUsers
        \/ last'.op \in {"connection", "disconnect"}
        \/ (last'.op = "newUser" /\ last'.userId # Empty))
       => (/\ Len(out') = 1
           /\ out'[1].ev = "usersOnline"
           /\ out'[1].users = onlineUsers'
           /\ out'[1].rcpts = sockets')]_vars

\* A disconnect has told the sockets that remain of the entries that remain.
C12_Witness ==
    /\ last.op = "disconnect"
    /\ Len(out) = 1
    /\ out[1].ev = "usersOnline"
    /\ sockets # {}
    /\ out[1].rcpts = sockets
    /\ out[1].users = onlineUsers
    /\ Len(onlineUsers) = Cardinality(sockets)

\* An event that lacks a required field: newUser without a userId; rtc:join,
\* rtc:leave, meeting:leave or meeting:end without a room; rtc:offer,
\* rtc:answer or rtc:ice without a room, a target or a payload.
MalformedEvent(e) ==
    \/ e.op = "newUser" /\ e.userId = Empty
    \/ e.op \in {"rtc:join", "rtc:leave", "meeting:leave", "meeting:end"} /\ e.room = Empty
    \/ e.op \in SignalOps /\ (e.room = Empty \/ e.to = Empty \/ e.payload = Null)

C14_StaleJoinLeavesNoHost ==
    /\ \A r \in DOMAIN roomHost : roomHost[r] \notin closed
    /\ \A id \in closed : EntriesOf(id) = {}

\* C15: a join of a room by a connection makes it a member of the room and
\* delivers rtc:joined, carrying its id, to exactly the other members of the
\* room: not to the joiner and not to a socket outside the room.
C15_JoinedToOtherMembers ==
    (last.op = "rtc:join" /\ last.room # Empty)
    => (/\ last.id \in rooms[last.room]
        /\ Len(out) = 1
        /\ out[1].ev = "rtc:joined"
        /\ out[1].from = last.id
        /\ out[1].rcpts = (rooms[last.room] \cap sockets) \ {last.id})

\* C16: rtc:left naming a connection reaches members of a room only when the
\* connection was a member of the room just before its rtc:leave or
\* meeting:leave; a leave by a connection that never joined the room, or has
\* already left it, notifies no one.
C16_LeftOnlyAfterJoined ==
    [][(/\ last'.op \in {"rtc:leave", "meeting:leave"}
        /\ last'.room # Empty
        /\ last'.id \notin rooms[last'.room])
       => \A i \in 1..Len(out') : out'[i].rcpts = {}]_vars

\* C17: rtc:leave and meeting:leave are the same operation: from any
\* reachable state, either of them, for the same connection and room, gives
\* the same rooms, host index and presence list and the same emissions.
C17_LeaveSameAsMeetingLeave ==
    [][/\ last'.op = "rtc:leave"
          => (/\ MeetingLeaveAndTell(last'.id, last'.room)
              /\ UNCHANGED <<sockets, closed, onlineUsers, roomHost>>)
       /\ last'.op = "meeting:leave"
          => (/\ LeaveAndTell(last'.id, last'.room)
              /\ UNCHANGED <<sockets, closed, onlineUsers, roomHost>>)]_vars

\* A meeting:leave has taken a connection out of a room and told a member.
C17_Witness ==
    /\ last.op = "meeting:leave"
    /\ last.room \in RoomNames
    /\ last.id \notin rooms[last.room]
    /\ Len(out) = 1
    /\ out[1].ev = "rtc:left"
    /\ out[1].from = last.id
    /\ out[1].rcpts # {}
    /\ out[1].rcpts = rooms[last.room]

\* C18: rtc:leave and meeting:leave never write the host index, even when
\* the host leaves: the host stays the host of a room it is not in, a join
\* of a room that has a host leaves the host index alone, and a meeting:end
\* from the host ends the room whether or not the host is in it.
C18_LeaveKeepsHost ==
    [][/\ last'.op \in {"rtc:leave", "meeting:leave"} => roomHost' = roomHost
       /\ (last'.op = "rtc:join" /\ last'.room \in DOMAIN roomHost)
          => roomHost' = roomHost
       /\ (/\ last'.op = "meeting:end"
           /\ last'.room \in DOMAIN roomHost
           /\ roomHost[last'.room] = last'.id)
          => (/\ Len(out') = 1
              /\ out'[1].ev = "meeting:ended"
              /\ out'[1].rcpts = rooms[last'.room] \cap sockets
              /\ last'.room \notin DOMAIN roomHost')]_vars

\* A host that had left its room has ended it for the socket still in it.
C18_Witness ==
    /\ last.op = "meeting:end"
    /\ last.room \in RoomNames
    /\ Len(out) = 1
    /\ out[1].ev = "meeting:ended"
    /\ out[1].rcpts # {}
    /\ last.id \notin out[1].rcpts

\* C19: with every event of a connection handled between its connection and
\* its disconnect, every host of the host index is a connected socket that
\* has an entry in the presence list.
C19_HostsAreOnline ==
    \A r \in DOMAIN roomHost :
        /\ roomHost[r] \in sockets
        /\ EntriesOf(roomHost[r]) # {}

\* A host has disconnected while another socket is host of a room.
C19_Witness ==
    /\ last.op = "disconnect"
    /\ \E e \in {out[i] : i \in 1..Len(out)} :
          \E r \in DOMAIN e.hostsAtEmit : e.hostsAtEmit[r] = last.id
    /\ \E r \in DOMAIN roomHost :
          /\ roomHost[r] \in sockets
          /\ EntriesOf(roomHost[r]) # {}

\* C20: a newUser event of a connected socket changes only the userId of
\* that socket's own entry: the number of entries, their order, and the
\* socketId and userId of every other entry stay; the socket always has an
\* entry, so the handler's append branch and its branch that hands an
\* existing userId entry to the announcer are never taken.
C20_IdentifyOwnEntryOnly ==
    [][last'.op = "newUser"
       => (/\ FindIndex(onlineUsers, last'.id) # 0
           /\ Len(onlineUsers') = Len(onlineUsers)
           /\ \A i \in 1..Len(onlineUsers) :
                 /\ onlineUsers'[i].socketId = onlineUsers[i].socketId
                 /\ onlineUsers[i].socketId # last'.id
                    => onlineUsers'[i] = onlineUsers[i]
                 /\ (onlineUsers[i].socketId = last'.id /\ last'.userId # Empty)
                    => onlineUsers'[i].userId = last'.userId)]_vars

\* A socket has announced a userId that another socket's entry bears, and
\* both entries stand.
C20_Witness ==
    /\ last.op = "newUser"
    /\ last.userId # Empty
    /\ Len(onlineUsers) = 2
    /\ Cardinality(EntriesBearing(last.userId)) = 2
    /\ \E i \in EntriesOf(last.id) : onlineUsers[i].userId = last.userId
====
